---- MODULE Spec2Model ----
(***************************************************************************)
(* Authentication and access-control gateway of Ashraf Furnitures.         *)
(*                                                                         *)
(*   authService.ts (src/unnamed/part_007)  loginWithEmail, loginWithGoogle,*)
(*                                          logout, onAuthChange,          *)
(*                                          createAuditLog, updateAdmin    *)
(*   authStore.ts   (src/unnamed/part_004)  login, logout, token refresh   *)
(*                                                                         *)
(* Every `await` of an async function is a yield point: the code between   *)
(* two awaits is one action, and the effect of the awaited request (the    *)
(* Firestore read or write, the sign-in, the sign-out) happens in the      *)
(* action that resumes after it.  Date.now() is the variable `now`; it     *)
(* advances only in Tick, so two steps taken without a Tick in between     *)
(* read the same millisecond.                                              *)
(*                                                                         *)
(* Fields of an admin document that no decision reads (name, lastLogin,    *)
(* createdAt, updatedAt) are left out; a write that touches only those     *)
(* fields is folded into the step that follows it.                         *)
(***************************************************************************)
EXTENDS Integers, Sequences, FiniteSets, TLC

\* ------------------------------------------------------------------ bounds
NProcs == 2
MaxTicks == 3
MaxAttempts == 6
MaxAuditFailures == 1
MaxSignOutFailures == 1
MaxListeners == 2
MaxTimers == 3
MaxRefreshTicks == 8
MaxStored == 6

\* --------------------------------------------------------------- constants
LockMs == 15 * 60 * 1000
LockThreshold == 5
TickMs == 5 * 60 * 1000
RateLimitMaxAttempts == 5
RateLimitWindowMs == 15 * 60 * 1000
MsPerMinute == 60000
RefreshMs == 45 * 60 * 1000
TokenLifetimeMs == 60 * 60 * 1000
RefreshTickMs == 15 * 60 * 1000
RestoreAgeMs == 30 * 60 * 1000

AllowedAdminEmail == "admin@ashraffurnitures.com"
OtherEmail == "editor@example.com"
Emails == {AllowedAdminEmail, OtherEmail}
Unknown == "unknown"
NoUser == "none"
Unset == "unset"
Null == -1

\* authStore: the store's token (a JWT or null), the module variable
\* tokenRefreshInterval when it holds no interval id, and the ids
\* setInterval can return.
NoToken == "null"
Token == "token"
NoInterval == 0
Handles == 1..MaxTimers
Slots == 1..MaxListeners

Procs == 1..NProcs
MaxTime == MaxTicks * TickMs
MaxRefreshTime == MaxRefreshTicks * RefreshTickMs

\* The Identity Provider's uid of a user.  Console-created users get an
\* opaque uid; a user created with an explicit uid may have the e-mail
\* address as its uid.
OpaqueUid(e) == IF e = AllowedAdminEmail THEN "uid-admin" ELSE "uid-editor"
DocIds == {OpaqueUid(e) : e \in Emails} \cup Emails

\* What getAdminData / snapshot.data() return; exists = FALSE is a missing
\* document.
NoDoc == [exists |-> FALSE, isActive |-> FALSE, loginAttempts |-> 0,
          isLocked |-> FALSE, lockedUntil |-> Null, role |-> "none"]
NewAdminDoc == [exists |-> TRUE, isActive |-> TRUE, loginAttempts |-> 0,
                isLocked |-> FALSE, lockedUntil |-> Null, role |-> "admin"]

\* AdminRole
AdminRoles == {"admin", "editor", "viewer"}

VARIABLES
    now,            \* Date.now(), in ms
    uidOf,          \* Identity Provider: e-mail -> uid (fixed)
    viteAdminEmail, \* import.meta.env.VITE_ADMIN_EMAIL (fixed)
    admins,         \* Firestore collection 'admins': document id -> document
    auditLogs,      \* Firestore collection 'auditLogs': document id -> entry
    currentUser,    \* auth.currentUser (e-mail of the signed-in user)
    proc,           \* the calls in flight: position and locals of each
    consoleErrors,  \* console.error('Failed to create audit log:')
    failBudget,     \* environment: audit writes Firestore will still reject
    track,          \* whether the two history variables below are kept
    failStreak,     \* history: consecutive invalid-credential failures of
                    \*   the allow-listed account (counted up to 5)
    fifthAt,        \* history: time of its 5th consecutive failure
    firstAt,        \* history: time of the first failure of the streak
    store,          \* authStore state: user, token, isAuthenticated
    tokenRefreshInterval, \* authStore: id of the refresh interval, or null
    activeIntervals,\* the browser's timers: ids of the intervals not cleared
    refresh,        \* the refresh callback: idle, awaiting getIdToken(true),
                    \*   or failed (its catch block has logged the error)
    listeners,      \* onAuthChange: the listener invocations in flight
    hasInitialized, \* authStore: initializeAuth has subscribed the listener
    lastCall,       \* history: the store operation that returned last
    intervalDue,    \* the browser's timers: when the interval fires next
    idTokenAt,      \* issue time of the ID token of auth.currentUser
    timed,          \* whether token issue times are kept and the interval
                    \*   fires by the clock (fixed)
    attempts,       \* localStorage "login_attempts" of the login page
    page            \* the login page: its handleLogin and what it showed

vars == <<now, uidOf, viteAdminEmail, admins, auditLogs, currentUser, proc,
          consoleErrors, failBudget, track, failStreak, fifthAt, firstAt,
          store, tokenRefreshInterval, activeIntervals, refresh, listeners,
          hasInitialized, lastCall, intervalDue, idTokenAt, timed,
          attempts, page>>

\* the variables no call of the gateway writes
fixed == <<uidOf, viteAdminEmail, track, timed>>

\* the state of the login page
client == <<attempts, page>>

\* the state of authStore and of the auth-state listener
timers == <<tokenRefreshInterval, activeIntervals, intervalDue>>
session == <<store, timers, refresh, listeners, hasInitialized, lastCall,
             idTokenAt>>

\* The store without a session, and a listener invocation that is not
\* running.
NoSession == [user |-> NoUser, token |-> NoToken, isAuthenticated |-> FALSE,
              issuedAt |-> Null, role |-> "none"]
IdleListener == [pc |-> "idle", user |-> NoUser, tokenAt |-> Null,
                 role |-> "none"]

\* A call that is not running.  att is the loginAttempts value the failure
\* handler computed from the snapshot it read; outcome is the result or the
\* Error the call has settled on.  decision, audits, auditFailed and
\* afterFive are history fields: the branch taken, the createAuditLog calls
\* made, whether one of their writes was rejected, whether the call began
\* after the 5th consecutive failure.  role is the role argument of
\* createAdmin; caller is a history field: the role of the user who was
\* signed in when createAdmin was called.
IdleProc == [pc |-> "idle", kind |-> "none", email |-> NoUser, att |-> 0,
             outcome |-> "none", decision |-> "none",
             audits |-> 0, auditFailed |-> FALSE, afterFive |-> FALSE,
             tokenAt |-> Null, caller |-> "none", role |-> "none"]

\* The login page at rest.  result is what the last handleLogin showed:
\* "limited" with the minutes of the rate-limit message, "ok" or "error".
IdlePage == [pc |-> "idle", email |-> NoUser, result |-> "none", minutes |-> 0]

\* The state after construction: nobody is signed in, no call is running,
\* the store holds no session and has not subscribed its listener.
InitIdle ==
    /\ now = 0
    /\ auditLogs = <<>>
    /\ currentUser = NoUser
    /\ proc = [p \in Procs |-> IdleProc]
    /\ consoleErrors = 0
    /\ failStreak = 0
    /\ fifthAt = Null
    /\ firstAt = Null
    /\ store = NoSession
    /\ tokenRefreshInterval = NoInterval
    /\ activeIntervals = {}
    /\ refresh = "idle"
    /\ listeners = [s \in Slots |-> IdleListener]
    /\ hasInitialized = FALSE
    /\ lastCall = "none"
    /\ intervalDue = Null
    /\ idTokenAt = Null
    /\ attempts = <<>>
    /\ page = IdlePage

\* The allow-listed administrator has a fresh admin document under his uid
\* (the setup guides).
InitCommon ==
    /\ admins = [d \in DocIds |->
                   IF d = uidOf[AllowedAdminEmail] THEN NewAdminDoc ELSE NoDoc]
    /\ InitIdle

OpaqueUids == [e \in Emails |-> OpaqueUid(e)]

\* The gateway with uids as the Identity Provider assigns them, any setting
\* of VITE_ADMIN_EMAIL, and a Firestore that accepts every audit write.
Init ==
    /\ uidOf = OpaqueUids
    /\ viteAdminEmail \in {Unset} \cup Emails
    /\ track = FALSE
    /\ timed = FALSE
    /\ failBudget = 0
    /\ InitCommon

\* Time passes.  auditLogs keeps the entries whose id starts with the
\* current Date.now(): an id of an earlier millisecond is never produced
\* again, so no step can address the entries written before.
Tick ==
    /\ now + TickMs <= MaxTime
    /\ now' = now + TickMs
    /\ auditLogs' = <<>>
    /\ UNCHANGED <<fixed, client, session, admins, currentUser, proc,
                   consoleErrors, failBudget, failStreak, fifthAt, firstAt>>

\* ---------------------------------------------------------------- helpers
At(p, k, l) == proc[p].kind = k /\ proc[p].pc = l

\* setDoc(doc(db, coll, id), data): creates the document or replaces it.
SetDoc(coll, id, data) ==
    [i \in (DOMAIN coll) \cup {id} |-> IF i = id THEN data ELSE coll[i]]

\* updateDoc(ref, updates): replaces the named fields of an existing document.
UpdateDoc(d, updates) ==
    [f \in DOMAIN d |-> IF f \in DOMAIN updates THEN updates[f] ELSE d[f]]

Min(a, b) == IF a < b THEN a ELSE b

\* ------------------------------------------------------- createAuditLog
\* The document id is `${Date.now()}-${email}`.
AuditId(email) == <<now, email>>

\* a catch block that logs the error and rethrows it to the caller
AuditWriteFailedThrows(p, next) ==
    /\ consoleErrors' = consoleErrors + 1
    /\ proc' = [proc EXCEPT ![p].pc = "done", ![p].outcome = "write_error",
                            ![p].audits = @ + 1, ![p].auditFailed = TRUE]

\* The catch block of createAuditLog: the error is logged and not rethrown,
\* the caller goes on to `next`.
AuditWriteFailed(p, next) ==
    /\ consoleErrors' = consoleErrors + 1
    /\ proc' = [proc EXCEPT ![p].pc = next, ![p].audits = @ + 1,
                            ![p].auditFailed = TRUE]

CreateAuditLog(p, action, email, status, next) ==
    \/ /\ auditLogs' = SetDoc(auditLogs, AuditId(email),
                              [action |-> action, status |-> status])
       /\ proc' = [proc EXCEPT ![p].pc = next, ![p].audits = @ + 1]
       /\ UNCHANGED <<consoleErrors, failBudget>>
    \/ /\ failBudget > 0
       /\ failBudget' = failBudget - 1
       /\ AuditWriteFailed(p, next)
       /\ UNCHANGED auditLogs

\* --------------------------------------------------------- ID tokens
\* The issue time recorded for a token issued now.
IssueTime == IF timed THEN now ELSE Null

\* user.getIdToken(forceRefresh) for a user whose token was issued at t:
\* the token it resolves with is the one the user holds unless that one has
\* expired or the refresh is forced; then a new one is issued.
GetIdToken(t, force) ==
    IF ~timed THEN Null
    ELSE IF force \/ t = Null \/ now >= t + TokenLifetimeMs THEN now
    ELSE t

\* ------------------------------------- authStore: the token refresh timer
\* setInterval returns an id that no active timer has; the store's variable
\* may still hold the id it is about to replace.
NewHandle(interval, active) ==
    CHOOSE h \in Handles : h \notin active \cup {interval}

CanSetInterval == \E h \in Handles : h \notin activeIntervals \cup {tokenRefreshInterval}

\* setupTokenRefresh without the clearInterval of the existing interval
SetupTokenRefreshKeepsOld(interval, active) ==
    LET h == NewHandle(interval, active)
    IN [tokenRefreshInterval |-> h, activeIntervals |-> active \cup {h},
        intervalDue |-> now + RefreshMs]

\* setupTokenRefresh(set): clears the existing interval, if any, and stores
\* the id of a new one.
SetupTokenRefresh(interval, active) ==
    LET h == NewHandle(interval, active)
        kept == IF interval # NoInterval THEN active \ {interval} ELSE active
    IN [tokenRefreshInterval |-> h, activeIntervals |-> kept \cup {h},
        intervalDue |-> now + RefreshMs]

\* clearTokenRefresh()
ClearTokenRefresh(interval, active) ==
    IF interval # NoInterval
    THEN [tokenRefreshInterval |-> NoInterval,
          activeIntervals |-> active \ {interval},
          intervalDue |-> IF active \ {interval} = {} THEN Null ELSE intervalDue]
    ELSE [tokenRefreshInterval |-> interval, activeIntervals |-> active,
          intervalDue |-> intervalDue]

SetTimers(t) ==
    /\ tokenRefreshInterval' = t.tokenRefreshInterval
    /\ activeIntervals' = t.activeIntervals
    /\ intervalDue' = t.intervalDue

\* The store's auth-state callback with adminUser = null: clearTokenRefresh()
\* and set({user: null, token: null, isAuthenticated: false}).
CallbackNull ==
    /\ SetTimers(ClearTokenRefresh(tokenRefreshInterval, activeIntervals))
    /\ store' = NoSession

\* set({user, token, isAuthenticated: true}) followed by
\* setupTokenRefresh(set): the end of login, loginWithGoogle and of the
\* auth-state callback with an adminUser.  r is the role of the adminUser
\* (adminUserToUser copies it into user.role).
SetAuthenticated(u, r, t, at) ==
    /\ CanSetInterval
    /\ store' = [user |-> u, token |-> t, isAuthenticated |-> TRUE,
                 issuedAt |-> at, role |-> r]
    /\ SetTimers(SetupTokenRefresh(tokenRefreshInterval, activeIntervals))

\* The listener invocation that starts for user u: the VITE_ADMIN_EMAIL
\* check, then signOut or getAdminData is awaited.
StartListener(u) ==
    LET s == CHOOSE x \in Slots : listeners[x].pc = "idle"
    IN /\ \E x \in Slots : listeners[x].pc = "idle"
       /\ listeners' = [listeners EXCEPT ![s] =
             [pc |-> IF viteAdminEmail # Unset /\ u # viteAdminEmail
                     THEN "l_signout" ELSE "l_getadmin",
              user |-> u, tokenAt |-> Null, role |-> "none"]]

\* auth.currentUser becomes u (signIn..., signOut).  Once initializeAuth has
\* subscribed, onAuthStateChanged delivers every change of the signed-in
\* user to the listener of onAuthChange before anything else runs: with no
\* user the listener calls the store's callback with null at once, with a
\* user it starts its checks.
AuthStateSet(u) ==
    /\ currentUser' = u
    /\ IF hasInitialized /\ u # currentUser
       THEN IF u = NoUser
            THEN CallbackNull /\ UNCHANGED listeners
            ELSE StartListener(u) /\ UNCHANGED <<store, timers>>
       ELSE UNCHANGED <<store, timers, listeners>>
    /\ idTokenAt' = IF u = NoUser THEN Null ELSE IssueTime
    /\ UNCHANGED <<refresh, hasInitialized, lastCall>>

\* ------------------------------------------------------- loginWithEmail
\* The checks loginWithEmail makes on the admin data it has read, in the
\* order of the code: the branch it takes.
AuthorizeEmailLockFirst(d, t) ==
    IF ~d.exists THEN "not_admin"
    ELSE IF d.isLocked /\ d.lockedUntil # Null /\ d.lockedUntil > t THEN "locked"
    ELSE IF ~d.isActive THEN "inactive"
    ELSE IF d.isLocked /\ d.lockedUntil # Null THEN "unlock"
    ELSE "reset"

AuthorizeEmail(d, t) ==
    IF ~d.exists THEN "not_admin"
    ELSE IF ~d.isActive THEN "inactive"
    ELSE IF d.isLocked /\ d.lockedUntil # Null
         THEN IF d.lockedUntil > t THEN "locked" ELSE "unlock"
    ELSE "reset"

\* status argument of the audit entry written before a rejection is thrown
RejectStatus(outcome) == IF outcome = "not_admin" THEN "failed" ELSE "blocked"

\* The call, and signInWithEmailAndPassword resolving or throwing
\* auth/wrong-password; then the allow-list check.
LoginWithEmailBegins(p, e, pwOk) ==
    /\ proc[p].pc = "idle"
    /\ LET start == [IdleProc EXCEPT !.kind = "email", !.email = e,
                       !.tokenAt = IF pwOk THEN IssueTime ELSE Null,
                       !.afterFive = (e = AllowedAdminEmail
                                      /\ failStreak >= LockThreshold)]
       IN IF ~pwOk
          THEN /\ proc' = [proc EXCEPT ![p] = [start EXCEPT !.pc = "e_fail_get"]]
               /\ UNCHANGED <<currentUser, session>>
          ELSE /\ AuthStateSet(e)
               /\ proc' = [proc EXCEPT ![p] =
                    IF e # AllowedAdminEmail
                    THEN [start EXCEPT !.pc = "e_signout",
                                       !.outcome = "denied", !.decision = "denied"]
                    ELSE [start EXCEPT !.pc = "e_getadmin"]]
    /\ UNCHANGED <<now, fixed, admins, auditLogs,
                   consoleErrors, failBudget, failStreak, fifthAt, firstAt>>

\* loginWithEmail called by any caller but the login page
LoginWithEmail(p, e, pwOk) ==
    /\ LoginWithEmailBegins(p, e, pwOk)
    /\ UNCHANGED client

\* getAdminData(firebaseUser.uid) resolves; the checks on it.
E_GetAdmin(p) ==
    /\ At(p, "email", "e_getadmin")
    /\ LET b == AuthorizeEmail(admins[uidOf[proc[p].email]], now)
       IN proc' = [proc EXCEPT ![p] =
            IF b \in {"not_admin", "inactive", "locked"}
            THEN [@ EXCEPT !.pc = "e_signout", !.outcome = b, !.decision = b]
            ELSE [@ EXCEPT !.pc = IF b = "unlock" THEN "e_unlock" ELSE "e_reset",
                           !.decision = "ok",
                           !.role = admins[uidOf[proc[p].email]].role]]
    /\ UNCHANGED <<now, fixed, client, session, admins, auditLogs, currentUser,
                   consoleErrors, failBudget, failStreak, fifthAt, firstAt>>

\* await signOut(auth) of a rejected login
E_SignOut(p) ==
    /\ At(p, "email", "e_signout")
    /\ AuthStateSet(NoUser)
    /\ proc' = [proc EXCEPT ![p].pc = "e_audit_rej"]
    /\ UNCHANGED <<now, fixed, client, admins, auditLogs,
                   consoleErrors, failBudget, failStreak, fifthAt, firstAt>>

\* createAuditLog('login_attempt', email, 'blocked' | 'failed', ...), then
\* the Error is thrown inside the try block
E_AuditReject(p) ==
    /\ At(p, "email", "e_audit_rej")
    /\ CreateAuditLog(p, "login_attempt", proc[p].email,
                      RejectStatus(proc[p].outcome), "e_catch")
    /\ UNCHANGED <<now, fixed, client, session, admins, currentUser,
                   failStreak, fifthAt, firstAt>>

\* the catch block, for an error that is not a credential error:
\* createAuditLog('login_attempt', email, 'failed', error.message); throw
E_Catch(p) ==
    /\ At(p, "email", "e_catch")
    /\ CreateAuditLog(p, "login_attempt", proc[p].email, "failed", "done")
    /\ UNCHANGED <<now, fixed, client, session, admins, currentUser,
                   failStreak, fifthAt, firstAt>>

\* the unlock writing isLocked: false only
E_UnlockFlagOnly(p) ==
    /\ At(p, "email", "e_unlock")
    /\ admins' = [admins EXCEPT ![uidOf[proc[p].email]] =
                    UpdateDoc(@, [isLocked |-> FALSE])]
    /\ proc' = [proc EXCEPT ![p].pc = "e_reset"]
    /\ UNCHANGED <<now, fixed, client, session, auditLogs, currentUser,
                   consoleErrors, failBudget, failStreak, fifthAt, firstAt>>

\* updateDoc: unlock the account whose lock period expired
E_Unlock(p) ==
    /\ At(p, "email", "e_unlock")
    /\ admins' = [admins EXCEPT ![uidOf[proc[p].email]] = UpdateDoc(@,
          [isLocked |-> FALSE, lockedUntil |-> Null, loginAttempts |-> 0])]
    /\ proc' = [proc EXCEPT ![p].pc = "e_reset"]
    /\ UNCHANGED <<now, fixed, client, session, auditLogs, currentUser,
                   consoleErrors, failBudget, failStreak, fifthAt, firstAt>>

\* the updateDoc of the success path writing lastLogin only
E_ResetStampsOnly(p) ==
    /\ At(p, "email", "e_reset")
    /\ proc' = [proc EXCEPT ![p].pc = "e_audit_ok"]
    /\ UNCHANGED <<now, fixed, client, session, admins, auditLogs, currentUser,
                   consoleErrors, failBudget, failStreak, fifthAt, firstAt>>

\* updateDoc: reset login attempts (and stamp lastLogin)
E_Reset(p) ==
    /\ At(p, "email", "e_reset")
    /\ admins' = [admins EXCEPT ![uidOf[proc[p].email]] =
                    UpdateDoc(@, [loginAttempts |-> 0])]
    /\ proc' = [proc EXCEPT ![p].pc = "e_audit_ok"]
    /\ UNCHANGED <<now, fixed, client, session, auditLogs, currentUser,
                   consoleErrors, failBudget, failStreak, fifthAt, firstAt>>

\* createAuditLog('login_success', email, 'success', ...)
E_AuditOk(p) ==
    /\ At(p, "email", "e_audit_ok")
    /\ CreateAuditLog(p, "login_success", proc[p].email, "success", "e_token")
    /\ UNCHANGED <<now, fixed, client, session, admins, currentUser,
                   failStreak, fifthAt, firstAt>>

\* firebaseUser.getIdToken() resolves; return {user, token}
E_Token(p) ==
    /\ At(p, "email", "e_token")
    /\ proc' = [proc EXCEPT ![p].pc = "done", ![p].outcome = "ok",
                            ![p].tokenAt = GetIdToken(@, FALSE)]
    /\ failStreak' = IF track /\ proc[p].email = AllowedAdminEmail
                      THEN 0 ELSE failStreak
    /\ UNCHANGED <<now, fixed, client, session, admins, auditLogs, currentUser,
                   consoleErrors, failBudget, fifthAt, firstAt>>

\* History: a failed attempt is counted at the step that settles it.
CountFailure(e) ==
    IF track /\ e = AllowedAdminEmail
    THEN /\ failStreak' = Min(failStreak + 1, LockThreshold)
         /\ fifthAt' = IF failStreak + 1 = LockThreshold THEN now ELSE fifthAt
         /\ firstAt' = IF failStreak = 0 THEN now ELSE firstAt
    ELSE UNCHANGED <<failStreak, fifthAt, firstAt>>

\* catch, error.code = 'auth/wrong-password': getDoc(doc(db, 'admins', email))
\* resolves.  The document is looked up under the e-mail address.
E_FailGet(p) ==
    /\ At(p, "email", "e_fail_get")
    /\ LET d == admins[proc[p].email]
           loginAttempts == d.loginAttempts + 1
       IN proc' = [proc EXCEPT ![p] =
            IF d.exists
            THEN [@ EXCEPT !.pc = "e_fail_write", !.att = loginAttempts]
            ELSE [@ EXCEPT !.pc = "e_fail_audit",
                           !.outcome = "invalid", !.decision = "invalid"]]
    /\ UNCHANGED <<now, fixed, client, session, admins, auditLogs, currentUser,
                   consoleErrors, failBudget, failStreak, fifthAt, firstAt>>

\* The write of the failure handler.  From 5 attempts on:
\* updateDoc(adminRef, {isLocked: true, lockedUntil, loginAttempts}), with
\* lockedUntil = new Date(Date.now() + 15 * 60 * 1000); below 5:
\* updateDoc(adminRef, {loginAttempts}).  loginAttempts is the value computed
\* from the snapshot read before.
E_FailWrite(p) ==
    /\ At(p, "email", "e_fail_write")
    /\ proc[p].att <= MaxAttempts
    /\ LET lock == proc[p].att >= LockThreshold
       IN /\ admins' = [admins EXCEPT ![proc[p].email] =
                IF lock
                THEN UpdateDoc(@, [isLocked |-> TRUE,
                                   lockedUntil |-> now + LockMs,
                                   loginAttempts |-> proc[p].att])
                ELSE UpdateDoc(@, [loginAttempts |-> proc[p].att])]
          /\ proc' = [proc EXCEPT ![p] =
                [@ EXCEPT !.pc = "e_fail_audit", !.att = 0,
                   !.outcome = IF lock THEN "locked_out" ELSE "invalid_left",
                   !.decision = IF lock THEN "locked_out" ELSE "invalid_left"]]
    /\ CountFailure(proc[p].email)
    /\ UNCHANGED <<now, fixed, client, session, auditLogs, currentUser, consoleErrors, failBudget>>

\* The audit entry of a failed attempt, and the Error thrown to the caller:
\*   'blocked', 'Too many failed login attempts. Account locked ...'
\*   'failed',  'Invalid email or password. N attempts remaining'
\*   'failed',  'Invalid email or password'   (no document was found)
E_FailAudit(p) ==
    /\ At(p, "email", "e_fail_audit")
    /\ CreateAuditLog(p, "login_attempt", proc[p].email,
          IF proc[p].outcome = "locked_out" THEN "blocked" ELSE "failed", "done")
    /\ IF proc[p].outcome = "invalid"
       THEN CountFailure(proc[p].email)
       ELSE UNCHANGED <<failStreak, fifthAt, firstAt>>
    /\ UNCHANGED <<now, fixed, client, session, admins, currentUser>>

\* control is back at the caller
Return(p) ==
    /\ proc[p].pc = "done"
    /\ proc' = [proc EXCEPT ![p] = IdleProc]
    /\ UNCHANGED <<now, fixed, client, session, admins, auditLogs, currentUser,
                   consoleErrors, failBudget, failStreak, fifthAt, firstAt>>

\* The steps of loginWithEmail, without the write of the failure handler.
EmailStep(p) ==
    \/ \E e \in Emails, pwOk \in BOOLEAN : LoginWithEmail(p, e, pwOk)
    \/ E_GetAdmin(p)
    \/ E_SignOut(p)
    \/ E_AuditReject(p)
    \/ E_Catch(p)
    \/ E_Unlock(p)
    \/ E_Reset(p)
    \/ E_AuditOk(p)
    \/ E_Token(p)
    \/ E_FailGet(p)
    \/ E_FailAudit(p)

\* ------------------------------------------------------- loginWithGoogle
PopupClosed == "popup-closed"

\* The call and signInWithPopup: the user picks the Google account g, or
\* closes the popup; then the VITE_ADMIN_EMAIL check.
LoginWithGoogle(p, g) ==
    /\ proc[p].pc = "idle"
    /\ LET start == [IdleProc EXCEPT !.kind = "google", !.email = g,
                       !.tokenAt = IF g = PopupClosed THEN Null ELSE IssueTime]
       IN IF g = PopupClosed
          THEN /\ proc' = [proc EXCEPT ![p] =
                     [start EXCEPT !.pc = "done", !.email = NoUser,
                                   !.outcome = "cancelled",
                                   !.decision = "cancelled"]]
               /\ UNCHANGED <<currentUser, session>>
          ELSE /\ AuthStateSet(g)
               /\ proc' = [proc EXCEPT ![p] =
                    IF viteAdminEmail # Unset /\ g # viteAdminEmail
                    THEN [start EXCEPT !.pc = "g_signout",
                                       !.outcome = "denied", !.decision = "denied"]
                    ELSE [start EXCEPT !.pc = "g_getadmin"]]
    /\ UNCHANGED <<now, fixed, client, admins, auditLogs,
                   consoleErrors, failBudget, failStreak, fifthAt, firstAt>>

\* getAdminData(firebaseUser.uid) resolves.  An existing active admin gets
\* updateDoc({lastLogin, updatedAt}), which changes no field of the model.
G_GetAdmin(p) ==
    /\ At(p, "google", "g_getadmin")
    /\ LET d == admins[uidOf[proc[p].email]]
       IN proc' = [proc EXCEPT ![p] =
            IF ~d.exists
            THEN [@ EXCEPT !.pc = "g_create", !.decision = "ok",
                           !.role = NewAdminDoc.role]
            ELSE IF ~d.isActive
            THEN [@ EXCEPT !.pc = "g_signout", !.outcome = "inactive",
                           !.decision = "inactive"]
            ELSE [@ EXCEPT !.pc = "g_audit_ok", !.decision = "ok",
                           !.role = d.role]]
    /\ UNCHANGED <<now, fixed, client, session, admins, auditLogs, currentUser,
                   consoleErrors, failBudget, failStreak, fifthAt, firstAt>>

\* setDoc(doc(db, 'admins', firebaseUser.uid), newAdminData)
G_Create(p) ==
    /\ At(p, "google", "g_create")
    /\ admins' = SetDoc(admins, uidOf[proc[p].email], NewAdminDoc)
    /\ proc' = [proc EXCEPT ![p].pc = "g_audit_ok"]
    /\ UNCHANGED <<now, fixed, client, session, auditLogs, currentUser,
                   consoleErrors, failBudget, failStreak, fifthAt, firstAt>>

\* createAuditLog('google_oauth', email, 'success', ...)
G_AuditOk(p) ==
    /\ At(p, "google", "g_audit_ok")
    /\ CreateAuditLog(p, "google_oauth", proc[p].email, "success", "g_token")
    /\ UNCHANGED <<now, fixed, client, session, admins, currentUser, failStreak, fifthAt, firstAt>>

\* firebaseUser.getIdToken() resolves; return {user, token}
G_Token(p) ==
    /\ At(p, "google", "g_token")
    /\ proc' = [proc EXCEPT ![p].pc = "done", ![p].outcome = "ok",
                            ![p].tokenAt = GetIdToken(@, FALSE)]
    /\ UNCHANGED <<now, fixed, client, session, admins, auditLogs, currentUser,
                   consoleErrors, failBudget, failStreak, fifthAt, firstAt>>

\* await signOut(auth) of a rejected Google login
G_SignOut(p) ==
    /\ At(p, "google", "g_signout")
    /\ AuthStateSet(NoUser)
    /\ proc' = [proc EXCEPT ![p].pc = "g_audit_rej"]
    /\ UNCHANGED <<now, fixed, client, admins, auditLogs,
                   consoleErrors, failBudget, failStreak, fifthAt, firstAt>>

\* createAuditLog('google_oauth', email, 'blocked', ...); throw
G_AuditReject(p) ==
    /\ At(p, "google", "g_audit_rej")
    /\ CreateAuditLog(p, "google_oauth", proc[p].email, "blocked", "g_catch")
    /\ UNCHANGED <<now, fixed, client, session, admins, currentUser, failStreak, fifthAt, firstAt>>

\* catch: createAuditLog('google_oauth', 'unknown', 'failed', ...); throw
G_Catch(p) ==
    /\ At(p, "google", "g_catch")
    /\ CreateAuditLog(p, "google_oauth", Unknown, "failed", "done")
    /\ UNCHANGED <<now, fixed, client, session, admins, currentUser, failStreak, fifthAt, firstAt>>

GoogleStep(p) ==
    \/ \E g \in Emails \cup {PopupClosed} : LoginWithGoogle(p, g)
    \/ G_GetAdmin(p)
    \/ G_Create(p)
    \/ G_AuditOk(p)
    \/ G_Token(p)
    \/ G_SignOut(p)
    \/ G_AuditReject(p)
    \/ G_Catch(p)

\* ------------------------------------------------------ logout (service)
\* The call: auth.currentUser is read; with an e-mail the audit entry is
\* written first.
LogoutBegins(p) ==
    /\ proc[p].pc = "idle"
    /\ proc' = [proc EXCEPT ![p] =
          [IdleProc EXCEPT !.kind = "logout", !.email = currentUser,
                           !.outcome = "logout", !.decision = "logout",
                           !.pc = IF currentUser # NoUser THEN "o_audit"
                                  ELSE "o_signout"]]

Logout(p) ==
    /\ LogoutBegins(p)
    /\ UNCHANGED <<now, fixed, client, session, admins, auditLogs, currentUser,
                   consoleErrors, failBudget, failStreak, fifthAt, firstAt>>

\* createAuditLog('logout', currentUser.email, 'success', 'User logged out')
O_Audit(p) ==
    /\ At(p, "logout", "o_audit")
    /\ CreateAuditLog(p, "logout", proc[p].email, "success", "o_signout")
    /\ UNCHANGED <<now, fixed, client, session, admins, currentUser, failStreak, fifthAt, firstAt>>

\* await signOut(auth)
O_SignOut(p) ==
    /\ At(p, "logout", "o_signout")
    /\ AuthStateSet(NoUser)
    /\ proc' = [proc EXCEPT ![p].pc = "done"]
    /\ UNCHANGED <<now, fixed, client, admins, auditLogs,
                   consoleErrors, failBudget, failStreak, fifthAt, firstAt>>

\* await signOut(auth) rejects: logout() of the service rejects with it and
\* the user stays signed in.
O_SignOutFails(p) ==
    /\ At(p, "logout", "o_signout")
    /\ consoleErrors < MaxSignOutFailures
    /\ proc' = [proc EXCEPT ![p].pc = "done", ![p].outcome = "error"]
    /\ UNCHANGED <<now, fixed, client, session, admins, auditLogs, currentUser,
                   consoleErrors, failBudget, failStreak, fifthAt, firstAt>>

LogoutStep(p) == Logout(p) \/ O_Audit(p) \/ O_SignOut(p)

\* ------------------------------------------------ onAuthChange listener
\* the write of createAuditLog when no call of the service is the caller
AuditWrite(action, email, status) ==
    \/ /\ auditLogs' = SetDoc(auditLogs, AuditId(email),
                              [action |-> action, status |-> status])
       /\ UNCHANGED <<consoleErrors, failBudget>>
    \/ /\ failBudget > 0
       /\ failBudget' = failBudget - 1
       /\ consoleErrors' = consoleErrors + 1
       /\ UNCHANGED auditLogs

\* callback(adminData) with adminData.role = r: the store's callback reads
\* auth.currentUser and awaits its getIdToken(); with no current user the
\* token is null and the callback sets the session and the refresh timer
\* at once.
DeliverAdmin(s, r) ==
    IF currentUser # NoUser
    THEN /\ listeners' = [listeners EXCEPT ![s].pc = "l_token",
                                            ![s].tokenAt = idTokenAt,
                                            ![s].role = r]
         /\ UNCHANGED <<store, timers>>
    ELSE /\ SetAuthenticated(listeners[s].user, r, NoToken, Null)
         /\ listeners' = [listeners EXCEPT ![s] = IdleListener]

\* getAdminData(firebaseUser.uid) resolves
L_GetAdmin(s) ==
    /\ listeners[s].pc = "l_getadmin"
    /\ LET d == admins[uidOf[listeners[s].user]]
       IN IF ~d.exists
          THEN /\ listeners' = [listeners EXCEPT ![s].pc = "l_create"]
               /\ UNCHANGED <<store, timers>>
          ELSE IF ~d.isActive
          THEN /\ listeners' = [listeners EXCEPT ![s].pc = "l_signout"]
               /\ UNCHANGED <<store, timers>>
          ELSE DeliverAdmin(s, d.role)
    /\ UNCHANGED <<now, fixed, client, admins, auditLogs, currentUser, proc,
                   consoleErrors, failBudget, failStreak, fifthAt, firstAt,
                   refresh, hasInitialized, idTokenAt, lastCall>>

\* setDoc(doc(db, 'admins', firebaseUser.uid), newAdminData)
L_Create(s) ==
    /\ listeners[s].pc = "l_create"
    /\ admins' = [admins EXCEPT ![uidOf[listeners[s].user]] = NewAdminDoc]
    /\ listeners' = [listeners EXCEPT ![s].pc = "l_audit"]
    /\ UNCHANGED <<now, fixed, client, auditLogs, currentUser, proc,
                   consoleErrors, failBudget, failStreak, fifthAt, firstAt,
                   store, timers, refresh, hasInitialized, idTokenAt, lastCall>>

\* createAuditLog('auth_state_change', ...) of the first-time login, then
\* callback(adminData) for the new, active account
L_Audit(s) ==
    /\ listeners[s].pc = "l_audit"
    /\ AuditWrite("auth_state_change", listeners[s].user, "success")
    /\ DeliverAdmin(s, NewAdminDoc.role)
    /\ UNCHANGED <<now, fixed, client, admins, currentUser, proc, failStreak, fifthAt, firstAt,
                   refresh, hasInitialized, idTokenAt, lastCall>>

\* await signOut(auth); callback(null)
L_SignOut(s) ==
    /\ listeners[s].pc = "l_signout"
    /\ currentUser' = NoUser
    /\ idTokenAt' = Null
    /\ CallbackNull
    /\ listeners' = [listeners EXCEPT ![s] = IdleListener]
    /\ UNCHANGED <<now, fixed, client, admins, auditLogs, proc,
                   consoleErrors, failBudget, failStreak, fifthAt, firstAt,
                   refresh, hasInitialized, lastCall>>

\* firebaseUser.getIdToken() resolves in the store's callback
L_Token(s) ==
    /\ listeners[s].pc = "l_token"
    /\ SetAuthenticated(listeners[s].user, listeners[s].role, Token,
                        GetIdToken(listeners[s].tokenAt, FALSE))
    /\ listeners' = [listeners EXCEPT ![s] = IdleListener]
    /\ UNCHANGED <<now, fixed, client, admins, auditLogs, currentUser, proc,
                   consoleErrors, failBudget, failStreak, fifthAt, firstAt,
                   refresh, hasInitialized, idTokenAt, lastCall>>

ListenerStep(s) ==
    L_GetAdmin(s) \/ L_Create(s) \/ L_Audit(s) \/ L_SignOut(s) \/ L_Token(s)

\* ------------------------------------------- Login page: the rate limiter
\* attempts.filter(attempt => now - attempt.timestamp < RATE_LIMIT_WINDOW_MS),
\* with an entry exactly as old as the window counted as recent
RecentAttemptsInclusive(list, t) ==
    SelectSeq(list, LAMBDA a : t - a.timestamp <= RateLimitWindowMs)

\* attempts.filter(attempt => now - attempt.timestamp < RATE_LIMIT_WINDOW_MS)
RecentAttempts(list, t) ==
    SelectSeq(list, LAMBDA a : t - a.timestamp < RateLimitWindowMs)

\* checkRateLimit refusing only above the maximum
CheckRateLimitAboveMax(list, email, t) ==
    LET emailAttempts ==
            SelectSeq(RecentAttempts(list, t), LAMBDA a : a.email = email)
    IN IF Len(emailAttempts) > RateLimitMaxAttempts
       THEN [allowed |-> FALSE,
             remainingTime |->
                 RateLimitWindowMs - (t - emailAttempts[1].timestamp)]
       ELSE [allowed |-> TRUE, remainingTime |-> 0]

\* checkRateLimit(email) on the stored list at time t; remainingTime is 0
\* where the code leaves it undefined (the page reads it as `|| 0`).
CheckRateLimit(list, email, t) ==
    LET emailAttempts ==
            SelectSeq(RecentAttempts(list, t), LAMBDA a : a.email = email)
    IN IF Len(emailAttempts) >= RateLimitMaxAttempts
       THEN [allowed |-> FALSE,
             remainingTime |->
                 RateLimitWindowMs - (t - emailAttempts[1].timestamp)]
       ELSE [allowed |-> TRUE, remainingTime |-> 0]

\* recordLoginAttempt(email): push, then drop the old entries
RecordLoginAttempt(list, email, t) ==
    RecentAttempts(Append(list, [timestamp |-> t, email |-> email]), t)

\* clearLoginAttempts removing the stored list
ClearLoginAttemptsAll(list, email) == <<>>

\* clearLoginAttempts(email)
ClearLoginAttempts(list, email) ==
    SelectSeq(list, LAMBDA a : a.email # email)

\* Math.ceil(ms / 60000) for ms >= 0
CeilMinutes(ms) == (ms + MsPerMinute - 1) \div MsPerMinute

\* handleLogin up to its first await: the rate-limit check; when it does
\* not allow, the message with the minutes and return; otherwise
\* recordLoginAttempt and the store's login, which calls loginWithEmail.
\* The form is disabled while a handleLogin is running.
HandleLogin(p, e, pwOk) ==
    /\ page.pc = "idle"
    /\ proc[p].pc = "idle"
    /\ LET chk == CheckRateLimit(attempts, e, now)
       IN IF ~chk.allowed
          THEN /\ page' = [pc |-> "idle", email |-> e, result |-> "limited",
                           minutes |-> CeilMinutes(chk.remainingTime)]
               /\ UNCHANGED <<now, fixed, session, admins, auditLogs,
                              currentUser, proc, consoleErrors, failBudget,
                              failStreak, fifthAt, firstAt, attempts>>
          ELSE /\ Len(attempts) < MaxStored
               /\ attempts' = RecordLoginAttempt(attempts, e, now)
               /\ page' = [pc |-> "awaiting", email |-> e, result |-> "none",
                           minutes |-> 0]
               /\ LoginWithEmailBegins(p, e, pwOk)

\* handleLogin after `await login(email, password)`: clearLoginAttempts
\* when it resolved, the error message when it threw.  Nothing happens
\* when the caller of the store was not the login page.
PageResumes(p) ==
    IF page.pc = "awaiting"
    THEN /\ attempts' = IF proc[p].outcome = "ok"
                         THEN ClearLoginAttempts(attempts, page.email)
                         ELSE attempts
         /\ page' = [page EXCEPT !.pc = "idle",
                        !.result = IF proc[p].outcome = "ok" THEN "ok" ELSE "error"]
    ELSE UNCHANGED client

\* ------------------------------------------------------------- authStore
\* isAdmin() answering true for every role
IsAdminAnyRole(st) == st.role \in AdminRoles

\* isAdmin(): role === "admin" || role === "editor" of get().user
IsAdmin(st) == st.role = "admin" \/ st.role = "editor"

\* <ProtectedRoute requiresAdmin> for the store st: the page it shows or
\* redirects to.
ProtectedRoute(st) ==
    IF ~st.isAuthenticated THEN "/login"
    ELSE IF ~IsAdmin(st) THEN "/"
    ELSE "/admin/dashboard"

\* initializeAuth(): subscribes the listener; onAuthStateChanged delivers
\* the current auth state to it.
InitializeAuth ==
    /\ ~hasInitialized
    /\ hasInitialized' = TRUE
    /\ IF currentUser = NoUser
       THEN CallbackNull /\ UNCHANGED listeners
       ELSE StartListener(currentUser) /\ UNCHANGED <<store, timers>>
    /\ UNCHANGED <<now, fixed, client, admins, auditLogs, currentUser, proc,
                   consoleErrors, failBudget, failStreak, fifthAt, firstAt,
                   refresh, lastCall, idTokenAt>>

\* An interval fires (when it is due, if the clock is kept): the callback
\* reads auth.currentUser and, with a user, awaits getIdToken(true);
\* without one it does nothing.  The interval fires again 45 minutes later.
TimerFire ==
    /\ activeIntervals # {}
    /\ refresh # "awaiting"
    /\ timed => now >= intervalDue
    /\ refresh' = IF currentUser # NoUser THEN "awaiting" ELSE refresh
    /\ intervalDue' = IF timed THEN intervalDue + RefreshMs ELSE intervalDue
    /\ UNCHANGED <<now, fixed, client, admins, auditLogs, currentUser, proc,
                   consoleErrors, failBudget, failStreak, fifthAt, firstAt,
                   store, tokenRefreshInterval, activeIntervals,
                   listeners, hasInitialized, idTokenAt, lastCall>>

\* getIdToken(true) resolves and the callback sets the token.
RefreshResolve ==
    /\ refresh = "awaiting"
    /\ refresh' = "idle"
    /\ store' = [store EXCEPT !.token = Token, !.issuedAt = IssueTime]
    /\ idTokenAt' = IF currentUser # NoUser THEN IssueTime ELSE idTokenAt
    /\ UNCHANGED <<now, fixed, client, admins, auditLogs, currentUser, proc,
                   consoleErrors, failBudget, failStreak, fifthAt, firstAt,
                   timers, listeners, hasInitialized, lastCall>>

\* a catch block that ends the session when the refresh fails
RefreshRejectLogsOut ==
    /\ refresh = "awaiting"
    /\ refresh' = "failed"
    /\ CallbackNull
    /\ UNCHANGED <<now, fixed, client, admins, auditLogs, currentUser, proc,
                   consoleErrors, failBudget, failStreak, fifthAt, firstAt,
                   listeners, hasInitialized, idTokenAt, lastCall>>

\* getIdToken(true) rejects: the catch block of the callback logs
\* "Token refresh failed" and the callback ends; refresh = "failed" until
\* the interval fires again.
RefreshReject ==
    /\ refresh = "awaiting"
    /\ refresh' = "failed"
    /\ UNCHANGED <<now, fixed, client, admins, auditLogs, currentUser, proc,
                   consoleErrors, failBudget, failStreak, fifthAt, firstAt,
                   store, timers, listeners, hasInitialized, idTokenAt, lastCall>>

\* login / loginWithGoogle of the store after the awaited service call:
\* with a response, set the session and setupTokenRefresh; with an error,
\* rethrow.  Control is then back at the caller.
S_LoginReturn(p) ==
    /\ proc[p].pc = "done"
    /\ proc[p].kind \in {"email", "google"}
    /\ IF proc[p].outcome = "ok"
       THEN SetAuthenticated(proc[p].email, proc[p].role, Token,
                             proc[p].tokenAt)
       ELSE UNCHANGED <<store, timers>>
    /\ proc' = [proc EXCEPT ![p] = IdleProc]
    /\ lastCall' = "login"
    /\ PageResumes(p)
    /\ UNCHANGED <<now, fixed, admins, auditLogs, currentUser,
                   consoleErrors, failBudget, failStreak, fifthAt, firstAt,
                   refresh, listeners, hasInitialized, idTokenAt>>

\* logout of the store: clearTokenRefresh(), then the service's logout is
\* called and awaited
S_Logout(p) ==
    /\ LogoutBegins(p)
    /\ SetTimers(ClearTokenRefresh(tokenRefreshInterval, activeIntervals))
    /\ UNCHANGED <<now, fixed, client, admins, auditLogs, currentUser,
                   consoleErrors, failBudget, failStreak, fifthAt, firstAt,
                   store, refresh, listeners, hasInitialized, idTokenAt, lastCall>>

\* logout of the store after the awaited service call: the session is
\* discarded and logout returns
S_LogoutReturn(p) ==
    /\ At(p, "logout", "done")
    /\ proc[p].outcome # "error"
    /\ store' = NoSession
    /\ proc' = [proc EXCEPT ![p] = IdleProc]
    /\ lastCall' = "logout"
    /\ UNCHANGED <<now, fixed, client, admins, auditLogs, currentUser,
                   consoleErrors, failBudget, failStreak, fifthAt, firstAt,
                   timers, refresh, listeners, hasInitialized, idTokenAt>>

\* logout of the store when the awaited service call rejected: the catch
\* block logs "Logout failed" and logout returns; set() was not reached.
S_LogoutCatch(p) ==
    /\ At(p, "logout", "done")
    /\ proc[p].outcome = "error"
    /\ consoleErrors' = consoleErrors + 1
    /\ proc' = [proc EXCEPT ![p] = IdleProc]
    /\ lastCall' = "logout_failed"
    /\ UNCHANGED <<now, fixed, client, admins, auditLogs, currentUser,
                   failBudget, failStreak, fifthAt, firstAt,
                   store, timers, refresh, listeners, hasInitialized, idTokenAt>>

\* Fifteen minutes pass with the page at rest: awaited requests resolve in
\* far less than that, and an interval that is due fires before more time
\* passes.
Elapse ==
    /\ timed
    /\ hasInitialized
    /\ \A p \in Procs : proc[p].pc = "idle"
    /\ \A x \in Slots : listeners[x].pc = "idle"
    /\ refresh # "awaiting"
    /\ activeIntervals # {} => now < intervalDue
    /\ now + RefreshTickMs <= MaxRefreshTime
    /\ now' = now + RefreshTickMs
    /\ auditLogs' = <<>>
    /\ UNCHANGED <<fixed, client, session, admins, currentUser, proc,
                   consoleErrors, failBudget, failStreak, fifthAt, firstAt>>

\* ------------------------------------------------- updateAdmin, deleteAdmin
\* The partial updates an administrator applies with updateAdmin:
\* deactivate (this is deleteAdmin), reactivate, lock for 15 minutes, set
\* only the lock flag, unlock, set the attempt counter.
AdminUpdates ==
    { [isActive |-> FALSE],
      [isActive |-> TRUE],
      [isLocked |-> TRUE, lockedUntil |-> now + LockMs],
      [isLocked |-> TRUE],
      [isLocked |-> FALSE, lockedUntil |-> Null, loginAttempts |-> 0],
      [loginAttempts |-> LockThreshold - 1] }

\* updateDoc(doc(db, 'admins', uid), {...updates, updatedAt}); it rejects
\* when the document does not exist.
UpdateAdmin(uid, updates) ==
    /\ admins[uid].exists
    /\ admins' = [admins EXCEPT ![uid] = UpdateDoc(@, updates)]
    /\ UNCHANGED <<now, fixed, client, session, auditLogs, currentUser, proc,
                   consoleErrors, failBudget, failStreak, fifthAt, firstAt>>

\* The role of the signed-in user, who calls the functions of the admin
\* panel: the role field of his admin document.
CallerRole ==
    IF currentUser \in Emails /\ admins[uidOf[currentUser]].exists
    THEN admins[uidOf[currentUser]].role
    ELSE "none"

\* updateAdmin / deleteAdmin called from the admin pages, which are shown
\* to a signed-in user.
ManageAdmin(uid, updates) ==
    /\ currentUser # NoUser
    /\ UpdateAdmin(uid, updates)

\* createAdmin(email, password, name, role):
\* createUserWithEmailAndPassword resolves for an address that had no
\* account, and the new user is the signed-in user.
CreateAdmin(p, e, role) ==
    /\ proc[p].pc = "idle"
    /\ currentUser # NoUser
    /\ AuthStateSet(e)
    /\ proc' = [proc EXCEPT ![p] =
          [IdleProc EXCEPT !.kind = "create", !.pc = "c_setdoc", !.email = e,
                           !.role = role, !.caller = CallerRole]]
    /\ UNCHANGED <<now, fixed, client, admins, auditLogs,
                   consoleErrors, failBudget, failStreak, fifthAt, firstAt>>

\* setDoc(doc(db, 'admins', firebaseUser.uid), adminData)
C_SetDoc(p) ==
    /\ At(p, "create", "c_setdoc")
    /\ admins' = SetDoc(admins, uidOf[proc[p].email],
                        [NewAdminDoc EXCEPT !.role = proc[p].role])
    /\ proc' = [proc EXCEPT ![p].pc = "c_signout"]
    /\ UNCHANGED <<now, fixed, client, session, auditLogs, currentUser,
                   consoleErrors, failBudget, failStreak, fifthAt, firstAt>>

\* await signOut(auth); return the new AdminUser
C_SignOut(p) ==
    /\ At(p, "create", "c_signout")
    /\ AuthStateSet(NoUser)
    /\ proc' = [proc EXCEPT ![p].pc = "done", ![p].outcome = "created"]
    /\ UNCHANGED <<now, fixed, client, admins, auditLogs,
                   consoleErrors, failBudget, failStreak, fifthAt, firstAt>>

\* ----------------------------------------------------------- specifications
\* Spec: one caller using every operation of the service, and the
\* administrator's updates.  With opaque uids no admin document is stored
\* under an e-mail address, so E_FailWrite is never enabled and is not
\* listed.  The second account is only deactivated and reactivated.
Next ==
    \/ Tick
    \/ EmailStep(1)
    \/ GoogleStep(1)
    \/ LogoutStep(1)
    \/ Return(1)
    \/ \E u \in AdminUpdates : UpdateAdmin(uidOf[AllowedAdminEmail], u)
    \/ \E u \in {[isActive |-> FALSE], [isActive |-> TRUE]} :
          UpdateAdmin(uidOf[OtherEmail], u)

Spec == Init /\ [][Next]_vars

\* SpecLockout: one caller logging in with e-mail and password, with the
\* history of consecutive failures; the administrator's uid is the opaque
\* one or the e-mail address.
AnyAdminUid ==
    /\ uidOf \in [Emails -> DocIds]
    /\ uidOf[AllowedAdminEmail] \in
          {OpaqueUid(AllowedAdminEmail), AllowedAdminEmail}
    /\ uidOf[OtherEmail] = OpaqueUid(OtherEmail)

InitLockout ==
    /\ AnyAdminUid
    /\ viteAdminEmail = Unset
    /\ track = TRUE
    /\ timed = FALSE
    /\ failBudget = 0
    /\ InitCommon

NextLockout ==
    \/ Tick
    \/ EmailStep(1)
    \/ E_FailWrite(1)
    \/ Return(1)

SpecLockout == InitLockout /\ [][NextLockout]_vars

\* SpecRace: NProcs concurrent loginWithEmail calls.
InitRace ==
    /\ AnyAdminUid
    /\ viteAdminEmail = Unset
    /\ track = FALSE
    /\ timed = FALSE
    /\ failBudget = 0
    /\ InitCommon

NextRace ==
    \/ Tick
    \/ \E p \in Procs : EmailStep(p) \/ E_FailWrite(p) \/ Return(p)

SpecRace == InitRace /\ [][NextRace]_vars

\* SpecAudit: one caller using every operation, a Firestore that rejects up
\* to MaxAuditFailures audit writes, an administrator who deactivates and
\* locks the allow-listed account.
InitAudit ==
    /\ AnyAdminUid
    /\ viteAdminEmail \in {Unset, AllowedAdminEmail}
    /\ track = FALSE
    /\ timed = FALSE
    /\ failBudget = MaxAuditFailures
    /\ InitCommon

NextAudit ==
    \/ Tick
    \/ EmailStep(1)
    \/ E_FailWrite(1)
    \/ GoogleStep(1)
    \/ LogoutStep(1)
    \/ Return(1)
    \/ \E u \in {[isActive |-> FALSE],
                 [isLocked |-> TRUE, lockedUntil |-> now + LockMs]} :
          UpdateAdmin(uidOf[AllowedAdminEmail], u)

SpecAudit == InitAudit /\ [][NextAudit]_vars

\* SpecSession: the store and the auth-state listener on top of the
\* service, for the administrator's identity: one browser tab calling
\* login, loginWithGoogle and logout of the store, the refresh interval
\* firing, the listener invocations, and the account being deactivated and
\* reactivated.  The admin document exists or is still to be created by the
\* first login.  No lock is set and no document is stored under an e-mail
\* address, so E_Unlock and E_FailWrite are never enabled and are not listed.
InitSession ==
    /\ uidOf = OpaqueUids
    /\ viteAdminEmail = Unset
    /\ track = FALSE
    /\ timed = FALSE
    /\ failBudget = 0
    /\ admins \in { [d \in DocIds |-> NoDoc],
                    [d \in DocIds |-> IF d = uidOf[AllowedAdminEmail]
                                      THEN NewAdminDoc ELSE NoDoc] }
    /\ InitIdle

NextSession ==
    \/ InitializeAuth
    \/ \E pwOk \in BOOLEAN : LoginWithEmail(1, AllowedAdminEmail, pwOk)
    \/ E_GetAdmin(1) \/ E_SignOut(1) \/ E_AuditReject(1) \/ E_Catch(1)
    \/ E_Reset(1) \/ E_AuditOk(1) \/ E_Token(1)
    \/ E_FailGet(1) \/ E_FailAudit(1)
    \/ \E g \in {AllowedAdminEmail, PopupClosed} : LoginWithGoogle(1, g)
    \/ G_GetAdmin(1) \/ G_Create(1) \/ G_AuditOk(1) \/ G_Token(1)
    \/ G_SignOut(1) \/ G_AuditReject(1) \/ G_Catch(1)
    \/ S_LoginReturn(1)
    \/ S_Logout(1)
    \/ O_Audit(1)
    \/ O_SignOut(1)
    \/ S_LogoutReturn(1)
    \/ TimerFire
    \/ RefreshResolve
    \/ RefreshReject
    \/ \E s \in Slots : ListenerStep(s)
    \/ \E u \in {[isActive |-> FALSE], [isActive |-> TRUE]} :
          UpdateAdmin(uidOf[AllowedAdminEmail], u)

SpecSession == InitSession /\ [][NextSession]_vars


\* SpecRefresh: the session of the administrator by the clock.  The page
\* is loaded with nobody signed in, or it is loaded 30 minutes after a
\* login of an earlier page load: Firebase Auth has restored the signed-in
\* user with the ID token of that login, and the persist middleware has
\* restored user, token and isAuthenticated of the store.  Every forced
\* refresh succeeds.
InitRefresh ==
    /\ uidOf = OpaqueUids
    /\ viteAdminEmail = Unset
    /\ track = FALSE
    /\ timed = TRUE
    /\ failBudget = 0
    /\ admins = [d \in DocIds |->
                   IF d = uidOf[AllowedAdminEmail] THEN NewAdminDoc ELSE NoDoc]
    /\ auditLogs = <<>>
    /\ proc = [p \in Procs |-> IdleProc]
    /\ consoleErrors = 0
    /\ failStreak = 0
    /\ fifthAt = Null
    /\ firstAt = Null
    /\ tokenRefreshInterval = NoInterval
    /\ activeIntervals = {}
    /\ intervalDue = Null
    /\ refresh = "idle"
    /\ listeners = [s \in Slots |-> IdleListener]
    /\ hasInitialized = FALSE
    /\ lastCall = "none"
    /\ attempts = <<>>
    /\ page = IdlePage
    /\ \/ /\ now = 0
          /\ currentUser = NoUser
          /\ idTokenAt = Null
          /\ store = NoSession
       \/ /\ now = RestoreAgeMs
          /\ currentUser = AllowedAdminEmail
          /\ idTokenAt = 0
          /\ store = [user |-> AllowedAdminEmail, token |-> Token,
                      isAuthenticated |-> TRUE, issuedAt |-> 0,
                      role |-> NewAdminDoc.role]

NextRefresh ==
    \/ InitializeAuth
    \/ \E pwOk \in BOOLEAN : LoginWithEmail(1, AllowedAdminEmail, pwOk)
    \/ E_GetAdmin(1) \/ E_Reset(1) \/ E_AuditOk(1) \/ E_Token(1)
    \/ E_FailGet(1) \/ E_FailAudit(1)
    \/ LoginWithGoogle(1, AllowedAdminEmail)
    \/ G_GetAdmin(1) \/ G_AuditOk(1) \/ G_Token(1)
    \/ S_LoginReturn(1)
    \/ S_Logout(1)
    \/ O_Audit(1)
    \/ O_SignOut(1)
    \/ S_LogoutReturn(1)
    \/ TimerFire
    \/ RefreshResolve
    \/ \E s \in Slots : L_GetAdmin(s) \/ L_Token(s)
    \/ Elapse

SpecRefresh == InitRefresh /\ [][NextRefresh]_vars

\* SpecLimiter: the login page in front of the gateway, with uids as the
\* Identity Provider assigns them.  Every login goes through handleLogin.
InitLimiter ==
    /\ uidOf = OpaqueUids
    /\ viteAdminEmail = Unset
    /\ track = FALSE
    /\ timed = FALSE
    /\ failBudget = 0
    /\ InitCommon

NextLimiter ==
    \/ Tick
    \/ \E e \in Emails, pwOk \in BOOLEAN : HandleLogin(1, e, pwOk)
    \/ E_GetAdmin(1) \/ E_SignOut(1) \/ E_AuditReject(1) \/ E_Catch(1)
    \/ E_Reset(1) \/ E_AuditOk(1) \/ E_Token(1)
    \/ E_FailGet(1) \/ E_FailAudit(1)
    \/ S_LoginReturn(1)

SpecLimiter == InitLimiter /\ [][NextLimiter]_vars

\* SpecRoles: the accounts and their management.  Users sign in with
\* Google (VITE_ADMIN_EMAIL is not set) and call createAdmin, updateAdmin
\* and deleteAdmin from the admin pages; the updates deactivate and
\* reactivate an account and set its role.
RoleUpdates ==
    {[isActive |-> FALSE], [isActive |-> TRUE]}
       \cup {[role |-> r] : r \in AdminRoles}

InitRoles ==
    /\ uidOf = OpaqueUids
    /\ viteAdminEmail = Unset
    /\ track = FALSE
    /\ timed = FALSE
    /\ failBudget = 0
    /\ InitCommon

NextRoles ==
    \/ \E g \in Emails : LoginWithGoogle(1, g)
    \/ G_GetAdmin(1) \/ G_Create(1) \/ G_AuditOk(1) \/ G_Token(1)
    \/ G_SignOut(1) \/ G_AuditReject(1) \/ G_Catch(1)
    \/ LogoutStep(1)
    \/ Return(1)
    \/ \E r \in AdminRoles : CreateAdmin(1, OtherEmail, r)
    \/ C_SetDoc(1)
    \/ C_SignOut(1)
    \/ \E e \in Emails, u \in RoleUpdates : ManageAdmin(uidOf[e], u)

SpecRoles == InitRoles /\ [][NextRoles]_vars

\* SpecRoute: the store of a page whose users sign in with Google
\* (VITE_ADMIN_EMAIL is not set).  The second account has no admin
\* document yet or has one with any role, as createAdmin leaves it.
InitRoute ==
    /\ uidOf = OpaqueUids
    /\ viteAdminEmail = Unset
    /\ track = FALSE
    /\ timed = FALSE
    /\ failBudget = 0
    /\ \E d \in {NoDoc} \cup {[NewAdminDoc EXCEPT !.role = r] : r \in AdminRoles} :
          admins = [i \in DocIds |->
                      IF i = uidOf[AllowedAdminEmail] THEN NewAdminDoc
                      ELSE IF i = uidOf[OtherEmail] THEN d ELSE NoDoc]
    /\ InitIdle

NextRoute ==
    \/ InitializeAuth
    \/ \E g \in Emails : LoginWithGoogle(1, g)
    \/ G_GetAdmin(1) \/ G_Create(1) \/ G_AuditOk(1) \/ G_Token(1)
    \/ S_LoginReturn(1)
    \/ S_Logout(1) \/ O_Audit(1) \/ O_SignOut(1) \/ S_LogoutReturn(1)
    \/ \E s \in Slots : L_GetAdmin(s) \/ L_Create(s) \/ L_Audit(s) \/ L_Token(s)

SpecRoute == InitRoute /\ [][NextRoute]_vars

\* SpecExpiry: the session by the clock from a page load with nobody
\* signed in; a forced refresh succeeds or fails.
InitExpiry == InitRefresh /\ currentUser = NoUser

NextExpiry == NextRefresh \/ RefreshReject

SpecExpiry == InitExpiry /\ [][NextExpiry]_vars

\* ------------------------------------------------------------------ claims
\* the admin document of the account that call p is about
AccountOf(p) == admins[uidOf[proc[p].email]]

\* C1: after 5 consecutive loginWithEmail calls of the allow-listed account
\* that failed with invalid credentials, every further loginWithEmail call
\* for it that finishes before 15 minutes have passed since the 5th failure
\* is rejected as locked, whatever password it carries.
C1_LockedAfterFiveFailures ==
    \A p \in Procs :
        ( /\ proc[p].pc = "done"
          /\ proc[p].kind = "email"
          /\ proc[p].email = AllowedAdminEmail
          /\ proc[p].afterFive
          /\ now < fifthAt + LockMs )
        => proc[p].outcome \in {"locked", "locked_out"}

\* C2: the step that settles a failed loginWithEmail call for an existing
\* account raises the persisted loginAttempts of the account by exactly one,
\* whatever other calls are in flight, and leaves the account locked when
\* the counter has reached 5.
FailureSettled(p) ==
    /\ proc[p].kind = "email"
    /\ proc[p].pc \in {"e_fail_get", "e_fail_write"}
    /\ proc'[p].pc = "e_fail_audit"

C2_AtomicIncrement ==
    [][ \A p \in Procs :
          (FailureSettled(p) /\ AccountOf(p).exists) =>
             LET u == uidOf[proc[p].email]
             IN /\ admins'[u].loginAttempts = admins[u].loginAttempts + 1
                /\ admins'[u].loginAttempts >= LockThreshold
                      => admins'[u].isLocked ]_vars

\* C3: the last write of a successful loginWithEmail or loginWithGoogle call
\* to the account leaves loginAttempts = 0 and isLocked = false, whatever
\* the fields were before.
SuccessWritten(p) ==
    /\ proc[p].pc \in {"e_reset", "g_getadmin", "g_create"}
    /\ proc'[p].pc \in {"e_audit_ok", "g_audit_ok"}

C3_SuccessResets ==
    [][ \A p \in Procs :
          SuccessWritten(p) =>
             LET d == admins'[uidOf[proc[p].email]]
             IN d.loginAttempts = 0 /\ ~d.isLocked ]_vars

\* the lock of document d is active at time t
LockActive(d, t) ==
    d.exists /\ d.isLocked /\ d.lockedUntil # Null /\ d.lockedUntil > t

\* C4: loginWithGoogle for an active account whose lock is active fails with
\* Locked: when it has read the account it settles on the locked error, and
\* a call that settled on it returns no session.
C4_GoogleRespectsLock ==
    [][ \A p \in Procs :
          ( /\ At(p, "google", "g_getadmin")
            /\ proc'[p].pc # "g_getadmin"
            /\ AccountOf(p).isActive
            /\ LockActive(AccountOf(p), now) )
          => proc'[p].outcome = "locked" ]_vars

\* Call p, whose credentials the Identity Provider has verified, settles in
\* this step on the branch it takes.
SettlesVerified(p) ==
    /\ proc[p].decision = "none"
    /\ proc'[p].kind \in {"email", "google"}
    /\ proc'[p].decision \in {"ok", "denied", "not_admin", "inactive", "locked"}

\* the allow-list check of the path: the hard-coded address for
\* loginWithEmail, VITE_ADMIN_EMAIL (when set) for loginWithGoogle
FailsAllowList(kind, e) ==
    IF kind = "email" THEN e # AllowedAdminEmail
    ELSE viteAdminEmail # Unset /\ e # viteAdminEmail

\* C5 as claimed: a login with correct credentials for an account with
\* isActive = false settles on the inactive error.
C5_InactiveAlwaysInactiveError ==
    [][ \A p \in Procs :
          LET d == admins[uidOf[proc'[p].email]]
          IN (SettlesVerified(p) /\ d.exists /\ ~d.isActive)
                => proc'[p].decision = "inactive" ]_vars

\* C5 amended: a login with correct credentials for an account with
\* isActive = false never returns a session, whatever isLocked, lockedUntil
\* and loginAttempts are: it settles on the inactive error when the e-mail
\* passes the allow-list check of the path, on the access-denied error when
\* it does not, and a call that settled on either does not succeed.
C5_InactiveNeverLogsIn ==
    [][ \A p \in Procs :
          LET d == admins[uidOf[proc'[p].email]]
          IN /\ (SettlesVerified(p) /\ d.exists /\ ~d.isActive) =>
                  proc'[p].decision =
                     IF FailsAllowList(proc'[p].kind, proc'[p].email)
                     THEN "denied" ELSE "inactive"
             /\ proc'[p].decision \in {"inactive", "denied"} =>
                  /\ proc'[p].outcome = proc'[p].decision
                  /\ proc'[p].pc \notin {"e_audit_ok", "e_token",
                                         "g_audit_ok", "g_token"} ]_vars

C5_Witness ==
    \E p \in Procs :
        /\ proc[p].pc = "done"
        /\ proc[p].outcome = "inactive"
        /\ ~AccountOf(p).isActive
        /\ LockActive(AccountOf(p), now)

\* C6: every finished call that authenticated or rejected a user, and every
\* finished logout of a signed-in user, has written exactly one audit entry.
C6_OneAuditEntryPerCall ==
    \A p \in Procs :
        ( /\ proc[p].pc = "done"
          /\ \/ proc[p].kind \in {"email", "google"}
                   /\ proc[p].outcome # "cancelled"
             \/ proc[p].kind = "logout" /\ proc[p].email # NoUser )
        => proc[p].audits = 1

\* C7: an audit entry, once written, is never replaced, changed or removed
\* by a later write (the entries of the current millisecond are the ones a
\* write can address).
C7_AuditWriteOnce ==
    [][ now' = now =>
          \A id \in DOMAIN auditLogs :
              id \in DOMAIN auditLogs' /\ auditLogs'[id] = auditLogs[id] ]_vars

\* C8: a rejected audit write changes no decision: every finished call
\* returns the result or error of the branch it had settled on, no
\* createAuditLog call changes an admin document, and every rejected write
\* is reported with console.error.
C8_AuditFailureHarmless ==
    [][ /\ \A p \in Procs :
             /\ proc'[p].pc = "done" => proc'[p].outcome = proc'[p].decision
             /\ proc'[p].audits # proc[p].audits => admins' = admins
        /\ consoleErrors' + failBudget' = MaxAuditFailures ]_vars

C8_Witness ==
    \E p \in Procs :
        /\ proc[p].pc = "done"
        /\ proc[p].outcome = "ok"
        /\ proc[p].auditFailed

\* logout() of the store has returned and no operation of the store has
\* been called since.
LoggedOut ==
    /\ lastCall = "logout"
    /\ \A p \in Procs : proc[p].pc = "idle"

\* C9: after logout() has returned and until the next login is called, no
\* token-refresh timer is scheduled and the store's token is null, whatever
\* refresh callback or listener invocation was in flight during the logout.
C9_NoTokenAfterLogout ==
    LoggedOut =>
        /\ activeIntervals = {}
        /\ tokenRefreshInterval = NoInterval
        /\ store.token = NoToken

\* C10: at most one refresh interval is active at any time, and a step
\* that replaces the interval held in tokenRefreshInterval has cleared the
\* one it replaces.
C10_AtMostOneTimer ==
    [][ /\ Cardinality(activeIntervals') <= 1
        /\ (tokenRefreshInterval # NoInterval
              /\ tokenRefreshInterval' # tokenRefreshInterval)
           => tokenRefreshInterval \notin activeIntervals' ]_vars

\* a session whose refresh interval replaced an earlier, still scheduled one
C10_Witness ==
    /\ store.isAuthenticated
    /\ tokenRefreshInterval = 2
    /\ activeIntervals = {2}

Fires == intervalDue # Null /\ intervalDue' # Null /\ intervalDue' > intervalDue
              /\ tokenRefreshInterval' = tokenRefreshInterval

\* C11: while refreshes succeed, the token the store holds has not expired
\* (it was issued less than 60 minutes ago), and the interval fires no
\* later than 45 minutes after the token the store holds was issued.
C11_TokenRefreshedBeforeExpiry ==
    [][ /\ store'.token = Token => now' < store'.issuedAt + TokenLifetimeMs
        /\ (Fires /\ store.token = Token) => now <= store.issuedAt + RefreshMs
      ]_vars

\* The entries of the stored list for key that are less than 15 minutes
\* old, by position.
RecentFor(key) ==
    {i \in DOMAIN attempts :
        attempts[i].email = key /\ now - attempts[i].timestamp < RateLimitWindowMs}

OldestFor(key) ==
    CHOOSE t \in {attempts[i].timestamp : i \in RecentFor(key)} :
        \A i \in RecentFor(key) : t <= attempts[i].timestamp

\* C14: checkRateLimit(key) returns allowed = false exactly when at least 5
\* recorded attempts for key are less than 15 minutes old; remainingTime is
\* then 15 minutes minus the age of the oldest of them, more than 0 and at
\* most 15 minutes; otherwise it returns allowed = true.
C14_CheckRateLimit ==
    \A key \in Emails :
        LET r == CheckRateLimit(attempts, key, now)
        IN /\ ~r.allowed <=> Cardinality(RecentFor(key)) >= RateLimitMaxAttempts
           /\ ~r.allowed =>
                /\ r.remainingTime = RateLimitWindowMs - (now - OldestFor(key))
                /\ r.remainingTime > 0
                /\ r.remainingTime <= RateLimitWindowMs

\* handleLogin has shown the rate-limit message for a key whose five
\* attempts are not all of the same age
C14_Witness ==
    /\ page.result = "limited"
    /\ page.minutes = 5
    /\ Cardinality(RecentFor(page.email)) >= RateLimitMaxAttempts
    /\ \E i \in RecentFor(page.email) : attempts[i].timestamp > OldestFor(page.email)
    /\ \E i \in DOMAIN attempts : attempts[i].email # page.email

\* The decision of loginWithEmail for e with verified credentials on the
\* admin data as it is now.
GatewayAccepts(e) ==
    /\ e = AllowedAdminEmail
    /\ AuthorizeEmail(admins[uidOf[e]], now) \in {"unlock", "reset"}

\* handleLogin stops at the rate-limit check in this step.
RateLimited == page'.result = "limited" /\ page' # page

\* C13: the rate limiter only stops logins that the gateway rejects by
\* itself: whenever handleLogin stops at the rate-limit check, loginWithEmail
\* called for the same e-mail with the correct password would be rejected.
C13_LimiterAddsNothing ==
    [][ RateLimited => ~GatewayAccepts(page'.email) ]_vars

\* The account is active, not locked and has fewer than 5 failed attempts.
InGoodStanding(d) ==
    d.exists /\ d.isActive /\ ~d.isLocked /\ d.loginAttempts < LockThreshold

C16_SixthAttemptLockedFiveMinutes ==
    [][ \A p \in Procs :
          ( /\ At(p, "email", "e_getadmin")
            /\ proc'[p] # proc[p]
            /\ proc[p].email = AllowedAdminEmail
            /\ proc[p].afterFive
            /\ failStreak >= LockThreshold
            /\ now = firstAt + 10 * MsPerMinute )
          => /\ proc'[p].decision = "locked"
             /\ CeilMinutes(AccountOf(p).lockedUntil - now) = 5 ]_vars

\* C17: a login call returns a session only for the allow-listed
\* administrator's e-mail address; a call whose credentials verified for
\* another address writes no admin document, and the provider session is
\* signed out when it has thrown.
C17_OnlyAllowListedEmail ==
    [][ \A p \in Procs :
          /\ (proc'[p].pc = "done" /\ proc'[p].outcome = "ok"
                /\ proc'[p].kind \in {"email", "google"})
             => proc'[p].email = AllowedAdminEmail
          /\ (proc[p].kind \in {"email", "google"} /\ proc'[p] # proc[p]
                /\ proc[p].email \in Emails \ {AllowedAdminEmail})
             => /\ admins' = admins
                /\ proc'[p].pc = "done" => currentUser' = NoUser ]_vars

C19_LockedHasLockedUntil ==
    [][ \A d \in DocIds :
          /\ admins'[d].isLocked => admins'[d].lockedUntil # Null
          /\ (proc' # proc /\ ~admins[d].isLocked /\ admins'[d].isLocked)
             => (admins'[d].lockedUntil = now + LockMs
                   /\ admins'[d].lockedUntil > now) ]_vars

\* C20: a step of createAdmin, updateAdmin or deleteAdmin changes an admin
\* document only when the role of the caller is admin.
C20_OnlyAdminManagesAdmins ==
    [][ /\ (admins' # admins /\ proc' = proc) => CallerRole = "admin"
        /\ \A p \in Procs :
             (proc[p].kind = "create" /\ admins' # admins)
                => proc[p].caller = "admin" ]_vars

LockExpired(d, t) ==
    d.exists /\ d.isLocked /\ d.lockedUntil # Null /\ d.lockedUntil <= t

\* C22: a loginWithEmail call that reaches the lock check of an active
\* account whose lockedUntil has passed goes on to the unlock, whose write
\* leaves isLocked = false, lockedUntil = null and loginAttempts = 0; and
\* no other step of the gateway clears a lock: isLocked goes from true to
\* false only in that write, after lockedUntil has passed.
C22_LockClearedLazily ==
    [][ /\ \A p \in Procs :
             /\ ( /\ At(p, "email", "e_getadmin")
                  /\ proc'[p] # proc[p]
                  /\ AccountOf(p).isActive
                  /\ LockExpired(AccountOf(p), now) )
                => proc'[p].pc = "e_unlock"
             /\ (At(p, "email", "e_unlock") /\ proc'[p] # proc[p])
                => LET d == admins'[uidOf[proc[p].email]]
                   IN ~d.isLocked /\ d.lockedUntil = Null /\ d.loginAttempts = 0
        /\ \A i \in DocIds :
             (admins[i].isLocked /\ ~admins'[i].isLocked)
                => /\ admins[i].lockedUntil <= now
                   /\ \E p \in Procs : /\ At(p, "email", "e_unlock")
                                       /\ proc'[p].pc = "e_reset"
                                       /\ uidOf[proc[p].email] = i ]_vars

\* the unlock of the administrator's expired lock has been written
C22_Witness ==
    \E p \in Procs :
        /\ At(p, "email", "e_reset")
        /\ failStreak >= LockThreshold
        /\ fifthAt # Null /\ now >= fifthAt + LockMs
        /\ ~AccountOf(p).isLocked
        /\ AccountOf(p).lockedUntil = Null
        /\ AccountOf(p).loginAttempts = 0

\* signInWithEmailAndPassword is invoked in this step: a loginWithEmail call
\* of p begins.
SignInInvoked(p) == proc[p].pc = "idle" /\ proc'[p].kind = "email"

\* C23: the Identity Provider verifies the password of an attempt only
\* after the rate limiter and the lock check have let it pass: no
\* loginWithEmail call signs in for a key the rate limiter stops or for an
\* account whose lock is active.
C23_LockCheckedBeforePassword ==
    [][ \A p \in Procs :
          SignInInvoked(p) =>
             /\ CheckRateLimit(attempts, proc'[p].email, now).allowed
             /\ ~LockActive(admins[uidOf[proc'[p].email]], now) ]_vars

\* handleLogin resumes after a login that succeeded, in this step.
LoginSucceeded ==
    page.pc = "awaiting" /\ page'.pc = "idle" /\ page'.result = "ok"

\* the recorded attempts of the keys other than key, in order
OtherKeys(list, key) == SelectSeq(list, LAMBDA a : a.email # key)

\* C24: when handleLogin resumes after a successful login for key k, no
\* recorded attempt for k remains in the list, checkRateLimit(k) allows, and
\* the recorded attempts of every other key are as they were.
C24_SuccessClearsOnlyItsKey ==
    [][ LoginSucceeded =>
          /\ \A i \in DOMAIN attempts' : attempts'[i].email # page.email
          /\ CheckRateLimit(attempts', page.email, now').allowed
          /\ OtherKeys(attempts', page.email) = OtherKeys(attempts, page.email)
      ]_vars

\* a login has succeeded and the attempts of the other key are still there
C24_Witness ==
    /\ page.result = "ok"
    /\ page.email = AllowedAdminEmail
    /\ attempts # <<>>
    /\ \A i \in DOMAIN attempts : attempts[i].email = OtherEmail

\* C25: after a refresh that failed, the store is not authenticated with a
\* token that has expired (one issued 60 minutes ago or earlier).
C25_ExpiredTokenForcesLogin ==
    (refresh = "failed" /\ store.isAuthenticated /\ store.token = Token)
       => now < store.issuedAt + TokenLifetimeMs

\* the Errors loginWithEmail throws after the credentials have verified
Rejections == {"denied", "not_admin", "inactive", "locked"}

\* C26: once a loginWithEmail call has rejected verified credentials and
\* every listener invocation has run to its end, the store has
\* isAuthenticated = false and no refresh interval is active.
C26_RejectedLoginLeavesNoSession ==
    \A p \in Procs :
        ( /\ hasInitialized
          /\ proc[p].kind = "email"
          /\ proc[p].pc = "done"
          /\ proc[p].outcome \in Rejections
          /\ \A s \in Slots : listeners[s].pc = "idle" )
        => (~store.isAuthenticated /\ activeIntervals = {})

InitProvision ==
    /\ uidOf = OpaqueUids
    /\ viteAdminEmail = Unset
    /\ track = FALSE
    /\ timed = FALSE
    /\ failBudget = 0
    /\ admins = [d \in DocIds |-> NoDoc]
    /\ InitIdle

NextProvision ==
    \/ InitializeAuth
    \/ \E e \in Emails, pwOk \in BOOLEAN : LoginWithEmail(1, e, pwOk)
    \/ E_GetAdmin(1) \/ E_SignOut(1) \/ E_AuditReject(1) \/ E_Catch(1)
    \/ E_Reset(1) \/ E_AuditOk(1) \/ E_Token(1)
    \/ E_FailGet(1) \/ E_FailAudit(1)
    \/ S_LoginReturn(1)
    \/ \E s \in Slots : L_GetAdmin(s) \/ L_Create(s) \/ L_Audit(s) \/ L_Token(s)

SpecProvision == InitProvision /\ [][NextProvision]_vars

\* C28: when every sign-in is by e-mail and password and no identity has an
\* admin document, no document is ever created and the store never becomes
\* authenticated.
C28_PasswordLoginNeverProvisions ==
    /\ \A d \in DocIds : ~admins[d].exists
    /\ ~store.isAuthenticated

\* The stored entries for the key of entry i that are at or after entry i
\* and less than 15 minutes after it, by position.
WithinWindowOf(i) ==
    {j \in DOMAIN attempts :
        /\ attempts[j].email = attempts[i].email
        /\ attempts[j].timestamp >= attempts[i].timestamp
        /\ attempts[j].timestamp - attempts[i].timestamp < RateLimitWindowMs}

\* handleLogin passes the rate-limit check and calls login in this step.
LoginCalled == page.pc = "idle" /\ page'.pc = "awaiting"

\* C29: the stored list never holds more than 5 entries for one key with
\* timestamps less than 15 minutes apart, and every handleLogin that calls
\* login has added its entry, to fewer than 5 recent entries for its key.
C29_AtMostFivePerWindow ==
    /\ [](\A i \in DOMAIN attempts :
             Cardinality(WithinWindowOf(i)) <= RateLimitMaxAttempts)
    /\ [][ LoginCalled =>
             /\ Cardinality(RecentFor(page'.email)) < RateLimitMaxAttempts
             /\ Len(attempts') >= 1
             /\ attempts'[Len(attempts')] =
                    [timestamp |-> now, email |-> page'.email] ]_vars

\* five attempts for one key are stored, made at more than one time, and
\* handleLogin has refused a sixth
C29_Witness ==
    /\ page.result = "limited"
    /\ \E i \in DOMAIN attempts :
          /\ Cardinality(WithinWindowOf(i)) = RateLimitMaxAttempts
          /\ attempts[i].email = page.email
          /\ \E j \in WithinWindowOf(i) :
                attempts[j].timestamp > attempts[i].timestamp

\* SpecLogout: the administrator logs in with e-mail and password and logs
\* out through the store; signOut of the provider rejects up to
\* MaxSignOutFailures times.
InitLogout ==
    /\ uidOf = OpaqueUids
    /\ viteAdminEmail = Unset
    /\ track = FALSE
    /\ timed = FALSE
    /\ failBudget = 0
    /\ admins = [d \in DocIds |->
                   IF d = uidOf[AllowedAdminEmail] THEN NewAdminDoc ELSE NoDoc]
    /\ InitIdle

NextLogout ==
    \/ InitializeAuth
    \/ LoginWithEmail(1, AllowedAdminEmail, TRUE)
    \/ E_GetAdmin(1) \/ E_Reset(1) \/ E_AuditOk(1) \/ E_Token(1)
    \/ S_LoginReturn(1)
    \/ S_Logout(1)
    \/ O_Audit(1)
    \/ O_SignOut(1)
    \/ O_SignOutFails(1)
    \/ S_LogoutReturn(1)
    \/ S_LogoutCatch(1)
    \/ TimerFire
    \/ RefreshResolve
    \/ \E s \in Slots : L_GetAdmin(s) \/ L_Token(s)

SpecLogout == InitLogout /\ [][NextLogout]_vars

\* logout() of the store has returned through its catch block and no
\* operation of the store or listener invocation is running.
LogoutFailed ==
    /\ lastCall = "logout_failed"
    /\ \A p \in Procs : proc[p].pc = "idle"
    /\ \A s \in Slots : listeners[s].pc = "idle"

\* C30: after a logout() whose provider sign-out failed, user, token,
\* isAuthenticated and the refresh timer are all cleared or all kept: an
\* authenticated store has a refresh timer scheduled.
C30_FailedLogoutConsistent ==
    LogoutFailed =>
        \/ /\ ~store.isAuthenticated
           /\ store.user = NoSession.user
           /\ store.token = NoSession.token
           /\ activeIntervals = {}
        \/ /\ store.isAuthenticated
           /\ store.user # NoSession.user
           /\ store.token # NoSession.token
           /\ activeIntervals # {}
====
